---- MODULE Spec2Model ----
(***************************************************************************)
(* Session and environment manager of the Mindflow console                 *)
(* (src/app/page.tsx) together with the request gates of its panels and    *)
(* the fetches of TasksPanel (src/app/components/TasksPanel.tsx).          *)
(*                                                                         *)
(* A JavaScript string that the code inspects (URLs, tokens) is a sequence *)
(* of atoms: the empty string is << >>, and a value that is null in        *)
(* localStorage is << >> as well, because every read of those keys in the  *)
(* code either tests truthiness or compares with a non-empty string.       *)
(*                                                                         *)
(* React is modelled at the granularity of commits: an event handler or a  *)
(* promise continuation produces the next rendered state, and the passive  *)
(* effects of that commit run in the following step (RunEffects).  The     *)
(* state in between is the rendered state the operator can see.            *)
(***************************************************************************)
EXTENDS Naturals, Sequences, FiniteSets, TLC

\* Number of token edits, environment clicks, date changes and refreshes of
\* the tasks explored in one behaviour.
MaxOps == 2

----------------------------------------------------------------------------
\* Strings

Empty == << >>

Truthy(s) == s # Empty

\* String.prototype.trim on a sequence of atoms; " " is the whitespace atom.
RECURSIVE TrimStart(_)
TrimStart(s) ==
    IF s # Empty /\ Head(s) = " " THEN TrimStart(Tail(s)) ELSE s

RECURSIVE TrimEnd(_)
TrimEnd(s) ==
    IF s # Empty /\ s[Len(s)] = " " THEN TrimEnd(SubSeq(s, 1, Len(s) - 1)) ELSE s

Trim(s) == TrimEnd(TrimStart(s))

\* urlString.replace(/\/$/, "")
StripTrailingSlash(s) ==
    IF s # Empty /\ s[Len(s)] = "/" THEN SubSeq(s, 1, Len(s) - 1) ELSE s

----------------------------------------------------------------------------
\* Environment registry

\* Position of the first atom a in s, Len(s) + 1 when there is none.
FirstIndex(s, a) ==
    IF \E i \in 1..Len(s) : s[i] = a
    THEN CHOOSE i \in 1..Len(s) : s[i] = a /\ \A j \in 1..(i - 1) : s[j] # a
    ELSE Len(s) + 1

Min(a, b) == IF a < b THEN a ELSE b

\* An absolute URL starts with its origin atom (scheme, host and port).
IsOrigin(a) == a \in {"https://localhost:7046",
                      "https://mindflowai-dev-g8g3eqd9avgscgc5.centralindia-01.azurewebsites.net",
                      "https://mindflowai-ducfdehcc0cqaebq.centralindia-01.azurewebsites.net"}

CanParse(s) == s # Empty /\ IsOrigin(s[1])

\* new URL(urlString): the origin, then the path up to "?" or "#", the
\* query up to "#", and the fragment.  The path of a parsed URL is never
\* empty.
ParseUrl(s) ==
    LET hashAt  == FirstIndex(s, "#")
        queryAt == Min(FirstIndex(s, "?"), hashAt)
        path    == SubSeq(s, 2, queryAt - 1)
    IN  [origin   |-> s[1],
         pathname |-> IF path = Empty THEN <<"/">> ELSE path,
         search   |-> SubSeq(s, queryAt, hashAt - 1),
         hash     |-> SubSeq(s, hashAt, Len(s))]

\* url.toString()
UrlToString(u) == <<u.origin>> \o u.pathname \o u.search \o u.hash

\* Variant: the pathname is left as parsed.
sanitizeSwaggerUrlKeepsPath(urlString) ==
    IF CanParse(urlString)
    THEN LET url == [ParseUrl(urlString) EXCEPT !.search = Empty,
                                                !.hash = Empty]
         IN  StripTrailingSlash(UrlToString(url))
    ELSE StripTrailingSlash(urlString)

sanitizeSwaggerUrl(urlString) ==
    IF CanParse(urlString)
    THEN LET url == [ParseUrl(urlString) EXCEPT !.pathname = <<"/">>,
                                                !.search = Empty,
                                                !.hash = Empty]
         IN  StripTrailingSlash(UrlToString(url))
    ELSE StripTrailingSlash(urlString)

DevSwaggerUrl ==
    <<"https://mindflowai-dev-g8g3eqd9avgscgc5.centralindia-01.azurewebsites.net",
      "/", "swagger", "/", "index.html">>

StagingSwaggerUrl ==
    <<"https://mindflowai-ducfdehcc0cqaebq.centralindia-01.azurewebsites.net",
      "/", "swagger", "/", "index.html">>

Environments == {"staging", "dev", "local"}

getDefaultApiBase(env) ==
    IF env = "local" THEN <<"https://localhost:7046">>
    ELSE IF env = "dev" THEN sanitizeSwaggerUrl(DevSwaggerUrl)
    ELSE sanitizeSwaggerUrl(StagingSwaggerUrl)

----------------------------------------------------------------------------
\* State

VARIABLES
    envBase,            \* process.env.NEXT_PUBLIC_API_BASE_URL, trimmed
    ls,                 \* localStorage: mindflow-api-base, mindflow-token,
                        \* mindflow-token-api-base
    authToken,          \* Home state
    autoLoginStatus,
    autoLoginError,
    apiBaseUrl,
    activeTab,
    mounted,            \* the effects of the first commit have run
    effDeps,            \* dependencies of the last run of the auto-login effect
    controller,         \* sign-in whose AbortController the pending cleanup
                        \* aborts; 0 when the last run returned before line 69
    signins,            \* the sign-in requests in flight, oldest first
    sent,               \* bearer-authenticated requests sent by the last step
    loadingSuggestions, \* BrainDumpPanel state
    response,
    startup,            \* history: localStorage as the page found it
    lastOp,             \* history: the last handler or continuation of Home
    nOps,               \* history: token edits, environment clicks, date
                        \* changes and refreshes of the tasks so far
    tasksPanel,         \* TasksPanel state: selectedDate, tasks, timezoneId,
                        \* loading, error
    tzFetches,          \* TasksPanel.fetchWellness calls in flight, oldest first
    taskFetches,        \* TasksPanel.fetchTasks calls in flight, oldest first
    panelOp             \* history: the last thing that happened in TasksPanel

vars == <<envBase, ls, authToken, autoLoginStatus, autoLoginError, apiBaseUrl,
          activeTab, mounted, effDeps, controller, signins, sent,
          loadingSuggestions, response, startup, lastOp, nOps, tasksPanel,
          tzFetches, taskFetches, panelOp>>

panelVars == <<tasksPanel, tzFetches, taskFetches, panelOp>>

homeVars == <<envBase, ls, authToken, autoLoginStatus, autoLoginError,
              apiBaseUrl, activeTab, mounted, effDeps, controller, signins,
              loadingSuggestions, response, startup, lastOp>>

Null == "null"

Local   == getDefaultApiBase("local")
Dev     == getDefaultApiBase("dev")
Staging == getDefaultApiBase("staging")

Bases == {getDefaultApiBase(env) : env \in Environments}

\* Configurations of the build: the variable unset, or naming the dev API.
EnvConfigs == {Empty, Dev}

\* A token found in storage at startup, tokens the operator types, and the
\* token the sign-in endpoint issues.
StoredToken  == <<"stored">>
TypedTokens  == {Empty, <<"pasted">>}
IssuedToken  == <<"abc">>

Tabs == {"wellness", "brain", "tasks"}

\* Responses of POST /api/users/signin: a network failure, or a status line
\* with a body read as text (non-2xx) or as JSON (2xx).
Responses ==
    { [net |-> TRUE,  ok |-> FALSE, status |-> "",    text |-> "",
       has_token |-> FALSE, access_token |-> Empty],
      [net |-> FALSE, ok |-> FALSE, status |-> "401", text |-> "Unauthorized",
       has_token |-> FALSE, access_token |-> Empty],
      [net |-> FALSE, ok |-> FALSE, status |-> "500", text |-> "",
       has_token |-> FALSE, access_token |-> Empty],
      [net |-> FALSE, ok |-> TRUE,  status |-> "200", text |-> "",
       has_token |-> FALSE, access_token |-> Empty],
      [net |-> FALSE, ok |-> TRUE,  status |-> "200", text |-> "",
       has_token |-> TRUE,  access_token |-> Empty],
      [net |-> FALSE, ok |-> TRUE,  status |-> "200", text |-> "",
       has_token |-> TRUE,  access_token |-> IssuedToken] }

NoResponse == [net |-> FALSE, ok |-> FALSE, status |-> "", text |-> "",
               has_token |-> FALSE, access_token |-> Empty]

\* A sign-in request in flight: the apiBaseUrl of the effect run that sent
\* it, the state of that run's AbortController and, as history, whether
\* another environment was selected since it was sent.
NewSignIn(base) == [base |-> base, aborted |-> FALSE, superseded |-> FALSE]

NoSignIn == [base |-> Empty, aborted |-> FALSE, superseded |-> FALSE]

\* History record of a handler of Home (kind "token" or "env"), or of the
\* continuation of sign-in req on response resp (kind "settle").
Op(kind, req, resp) == [kind |-> kind, req |-> req, resp |-> resp]

\* The date input: today, which useMemo computes at mount, and another day.
Today == "2026-11-03"
Dates == {Today, "2026-11-04"}

\* useState of TasksPanel (lines 42-46)
TasksPanelInit ==
    [selectedDate |-> Today, tasks |-> << >>, timezoneId |-> Null,
     loading |-> FALSE, error |-> Null]

\* Responses of GET /api/wellness/check-in as TasksPanel reads them: a
\* network failure, a non-2xx status, a body with a timezoneId, a body
\* without one.
TzResponses ==
    { [net |-> TRUE,  ok |-> FALSE, status |-> "",    text |-> "",
       items |-> FALSE, timezoneId |-> ""],
      [net |-> FALSE, ok |-> FALSE, status |-> "500", text |-> "",
       items |-> FALSE, timezoneId |-> ""],
      [net |-> FALSE, ok |-> TRUE,  status |-> "200", text |-> "",
       items |-> FALSE, timezoneId |-> "Asia/Karachi"],
      [net |-> FALSE, ok |-> TRUE,  status |-> "200", text |-> "",
       items |-> FALSE, timezoneId |-> ""] }

\* Responses of GET /api/tasks: a network failure, a non-2xx status with an
\* empty body, the tasks of the query, a null body.
TaskResponses ==
    { [net |-> TRUE,  ok |-> FALSE, status |-> "",    text |-> "",
       items |-> FALSE, timezoneId |-> ""],
      [net |-> FALSE, ok |-> FALSE, status |-> "500", text |-> "",
       items |-> FALSE, timezoneId |-> ""],
      [net |-> FALSE, ok |-> TRUE,  status |-> "200", text |-> "",
       items |-> TRUE,  timezoneId |-> ""],
      [net |-> FALSE, ok |-> TRUE,  status |-> "200", text |-> "",
       items |-> FALSE, timezoneId |-> ""] }

NoPanelResponse == [net |-> FALSE, ok |-> FALSE, status |-> "", text |-> "",
                    items |-> FALSE, timezoneId |-> ""]

\* A fetch of TasksPanel in flight: the apiBaseUrl, authToken and
\* selectedDate of the render whose closure sent it (date "" for the
\* wellness fetch) and, as history, whether no later call was made.
PanelFetch(base, token, date) ==
    [base |-> base, token |-> token, date |-> date, latest |-> TRUE]

NoFetch == [base |-> Empty, token |-> Empty, date |-> "", latest |-> FALSE]

\* The tasks the server holds for a query.
TasksOf(req) ==
    <<[time |-> "2026-11-03T09:00:00Z", date |-> req.date,
       token |-> req.token, base |-> req.base]>>

\* Variant: the configured base URL is preferred to the stored one.
InitialApiBaseUrlEnvFirst(store, env) ==
    IF Truthy(env) THEN env
    ELSE IF Truthy(store.base) THEN store.base
    ELSE getDefaultApiBase("local")

\* useState(() => ...) of apiBaseUrl
InitialApiBaseUrl(store, env) ==
    IF Truthy(store.base) THEN store.base
    ELSE IF Truthy(env) THEN env
    ELSE getDefaultApiBase("local")

\* What an earlier page load can have left in localStorage: every writer of
\* mindflow-token writes or removes mindflow-token-api-base with it.
Stores ==
    {store \in [base  : {Empty} \cup Bases,
                token : {Empty, StoredToken},
                owner : {Empty} \cup Bases] :
        Truthy(store.token) <=> Truthy(store.owner)}

Init ==
    /\ envBase \in EnvConfigs
    /\ ls \in Stores
    /\ authToken = Empty
    /\ autoLoginStatus = "idle"
    /\ autoLoginError = Null
    /\ apiBaseUrl = InitialApiBaseUrl(ls, envBase)
    /\ activeTab = "wellness"
    /\ mounted = FALSE
    /\ effDeps = [apiBaseUrl |-> Empty, authToken |-> Empty]
    /\ controller = 0
    /\ signins = << >>
    /\ sent = {}
    /\ loadingSuggestions = FALSE
    /\ response = FALSE
    /\ startup = ls
    /\ lastOp = Op("start", NoSignIn, NoResponse)
    /\ nOps = 0
    /\ tasksPanel = TasksPanelInit
    /\ tzFetches = << >>
    /\ taskFetches = << >>
    /\ panelOp = Op("none", NoFetch, NoPanelResponse)

----------------------------------------------------------------------------
\* State updates queued by one handler run, applied in order at the commit

Set(var, val) == [var |-> var, val |-> val]

Final(updates, var, old) ==
    LET idx == {i \in 1..Len(updates) : updates[i].var = var}
    IN  IF idx = {} THEN old
        ELSE updates[CHOOSE i \in idx : \A j \in idx : j <= i].val

Commit(updates) ==
    /\ authToken' = Final(updates, "authToken", authToken)
    /\ autoLoginStatus' = Final(updates, "autoLoginStatus", autoLoginStatus)
    /\ autoLoginError' = Final(updates, "autoLoginError", autoLoginError)
    /\ apiBaseUrl' = Final(updates, "apiBaseUrl", apiBaseUrl)

\* Variant: only mindflow-token is removed.
RemoveTokenKeepsOwner(store) == [store EXCEPT !.token = Empty]

RemoveToken(store) == [store EXCEPT !.token = Empty, !.owner = Empty]

----------------------------------------------------------------------------
\* Panels

hasAuth(token) == Truthy(Trim(token))

\* A request as sent: its endpoint, the base URL it goes to, the bearer
\* token it carries and the owner recorded for that token when it was sent.
Request(endpoint, base, token, store) ==
    [endpoint |-> endpoint, base |-> base, token |-> token, owner |-> store.owner]

\* The effects with dependency authToken of the panel on screen
\* (WellnessPanel, TasksPanel; BrainDumpPanel has none).
PanelEffects(tab, base, token, store) ==
    IF ~hasAuth(token) THEN {}
    ELSE IF tab = "wellness" THEN {Request("wellness", base, token, store)}
    ELSE IF tab = "tasks" THEN {Request("wellness", base, token, store),
                                Request("tasks", base, token, store)}
    ELSE {}

----------------------------------------------------------------------------
\* TasksPanel

\* formatTime(value, timeZone): the time and the zone toLocaleTimeString
\* renders it in; "default" is the zone of the browser.
formatTime(value, timeZone) ==
    IF value = "" THEN << >>
    ELSE <<value, IF timeZone \notin {Null, ""} THEN timeZone ELSE "default">>

\* Variant: the catch block reports the failure as WellnessPanel does.
fetchWellnessDoneReports(panel, resp) ==
    IF ~resp.net /\ resp.ok
    THEN [panel EXCEPT !.timezoneId = IF resp.timezoneId # ""
                                      THEN resp.timezoneId ELSE Null]
    ELSE [panel EXCEPT !.error = "Failed to fetch"]

\* fetchWellness after the fetch settles (lines 63-70): only a 2xx response
\* sets timezoneId; the catch block logs.
fetchWellnessDone(panel, resp) ==
    IF ~resp.net /\ resp.ok
    THEN [panel EXCEPT !.timezoneId = IF resp.timezoneId # ""
                                      THEN resp.timezoneId ELSE Null]
    ELSE panel

\* fetchTasks up to its await (lines 73-89), called from a render with this
\* state, base URL and token.
fetchTasks(panel, base, token) ==
    IF ~hasAuth(token)
    THEN [sends |-> FALSE, req |-> NoFetch,
          panel |-> [panel EXCEPT
                        !.error = "Provide a bearer token to call the API."]]
    ELSE [sends |-> TRUE, req |-> PanelFetch(base, token, panel.selectedDate),
          panel |-> [panel EXCEPT !.loading = TRUE, !.error = Null]]

\* fetchTasks after the fetch settles (lines 91-104)
fetchTasksDone(panel, req, resp) ==
    IF resp.net
    THEN [panel EXCEPT !.error = "Failed to fetch", !.tasks = << >>,
                       !.loading = FALSE]
    ELSE IF ~resp.ok
    THEN [panel EXCEPT !.error = IF resp.text # "" THEN resp.text
                                 ELSE "Request failed with " \o resp.status,
                       !.tasks = << >>, !.loading = FALSE]
    ELSE [panel EXCEPT !.tasks = IF resp.items THEN TasksOf(req) ELSE << >>,
                       !.loading = FALSE]

\* Variant: the Refresh button is never disabled.
RefreshDisabledNever(panel, token) == FALSE

\* disabled={loading || !hasAuth} of the Refresh button
RefreshDisabled(panel, token) == panel.loading \/ ~hasAuth(token)

\* The hint a panel renders next to its Refresh button (lines 158-162 and
\* 339-343); BrainDumpPanel has none.
ShowsHint(tab, token) == tab \in {"wellness", "tasks"} /\ ~hasAuth(token)

\* History: the calls in flight are no longer the latest.
Older(reqs) == [i \in 1..Len(reqs) |-> [reqs[i] EXCEPT !.latest = FALSE]]

\* The effects of a commit of TasksPanel rendered with this state: the
\* first (deps [authToken]) calls fetchWellness, the second (deps
\* [selectedDate, authToken]) calls fetchTasks, both only if hasAuth.
TasksPanelEffects(panel, base, token, tokenChanged, dateChanged, kind) ==
    LET wellness == tokenChanged /\ hasAuth(token)
        call     == fetchTasks(panel, base, token)
        list     == (tokenChanged \/ dateChanged) /\ hasAuth(token)
    IN  /\ tzFetches' = IF wellness
                        THEN Append(Older(tzFetches), PanelFetch(base, token, ""))
                        ELSE tzFetches
        /\ taskFetches' = IF list THEN Append(Older(taskFetches), call.req)
                          ELSE taskFetches
        /\ tasksPanel' = IF list THEN call.panel ELSE panel
        /\ panelOp' = IF list THEN Op(kind, call.req, NoPanelResponse)
                      ELSE IF kind = "effects" THEN panelOp
                      ELSE Op(kind, NoFetch, NoPanelResponse)

----------------------------------------------------------------------------
\* Home: effects

\* The mount effect (deps []): the updates it queues.
MountEffect(store) ==
    LET storedBase == store.base
        seedBase   == IF Truthy(storedBase) THEN storedBase
                      ELSE getDefaultApiBase("local")
    IN  (IF Truthy(storedBase) THEN <<Set("apiBaseUrl", storedBase)>> ELSE << >>)
        \o
        (IF Truthy(store.token) /\ store.owner = seedBase
         THEN <<Set("authToken", store.token), Set("autoLoginStatus", "success")>>
         ELSE << >>)

\* Variant: the effect leaves a session found in storage alone.
needsLoginUnlessStored(base, token, store) ==
    /\ Truthy(base)
    /\ ~Truthy(store.token)
    /\ (~Truthy(token) \/ store.owner # base)

\* The auto-login effect (deps [apiBaseUrl, authToken, credentials]) reaches
\* performLogin() when this holds of the values it closed over.
needsLogin(base, token, store) ==
    /\ Truthy(base)
    /\ (~Truthy(token) \/ store.owner # base)

\* Variant: performLogin starts without setAutoLoginError(null).
LoginStartKeepsError == <<Set("autoLoginStatus", "loading")>>

\* performLogin up to its first await: the updates queued before the fetch.
LoginStart == <<Set("autoLoginStatus", "loading"), Set("autoLoginError", Null)>>

\* Variant: the effect returns no cleanup.
CleanupNothing(reqs, ctl) == reqs

\* The cleanup of the previous run: controller.abort().
Cleanup(reqs, ctl) ==
    IF ctl = 0 THEN reqs ELSE [reqs EXCEPT ![ctl].aborted = TRUE]

\* The dependencies of the auto-login effect differ from those of its last run.
Dirty == effDeps # [apiBaseUrl |-> apiBaseUrl, authToken |-> authToken]

\* First commit: the panel's effects (children first), the mount effect and
\* the auto-login effect run on the values of the first render; the updates
\* they queue are applied together.
Mount ==
    /\ ~mounted
    /\ LET login == needsLogin(apiBaseUrl, authToken, ls)
       IN  /\ Commit(MountEffect(ls) \o (IF login THEN LoginStart ELSE << >>))
           /\ signins' = IF login THEN Append(signins, NewSignIn(apiBaseUrl))
                         ELSE signins
           /\ controller' = IF login THEN Len(signins') ELSE 0
    /\ sent' = PanelEffects(activeTab, apiBaseUrl, authToken, ls)
    /\ effDeps' = [apiBaseUrl |-> apiBaseUrl, authToken |-> authToken]
    /\ mounted' = TRUE
    /\ UNCHANGED <<envBase, ls, activeTab, loadingSuggestions, response,
                   startup, lastOp, nOps>>
    /\ UNCHANGED panelVars

\* A later commit whose apiBaseUrl or authToken changed: the panel's effects
\* run if authToken changed, then the cleanup of the previous auto-login
\* effect and the effect itself.
RunEffects ==
    /\ mounted
    /\ Dirty
    /\ LET login   == needsLogin(apiBaseUrl, authToken, ls)
           cleaned == Cleanup(signins, controller)
       IN  /\ Commit(IF login THEN LoginStart ELSE << >>)
           /\ signins' = IF login THEN Append(cleaned, NewSignIn(apiBaseUrl))
                         ELSE cleaned
           /\ controller' = IF login THEN Len(signins') ELSE 0
    /\ sent' = IF authToken # effDeps.authToken
               THEN PanelEffects(activeTab, apiBaseUrl, authToken, ls)
               ELSE {}
    /\ effDeps' = [apiBaseUrl |-> apiBaseUrl, authToken |-> authToken]
    /\ IF activeTab = "tasks"
       THEN TasksPanelEffects(tasksPanel, apiBaseUrl, authToken,
                              authToken # effDeps.authToken, FALSE, "effects")
       ELSE UNCHANGED panelVars
    /\ UNCHANGED <<envBase, ls, activeTab, mounted, loadingSuggestions,
                   response, startup, lastOp, nOps>>

----------------------------------------------------------------------------
\* Home: performLogin after the fetch settles

\* fetch() rejects on a network failure and when its signal is aborted.
FetchRejects(req, resp) == req.aborted \/ resp.net

\* Variant: only an absent field is rejected.
TokenMissingOnlyUndefined(resp) == ~resp.has_token

\* if (!data?.access_token)
TokenMissing(resp) == ~resp.has_token \/ ~Truthy(resp.access_token)

\* The try block: the message of the error it throws, or the token.
TryBlock(req, resp) ==
    IF FetchRejects(req, resp)
    THEN [threw |-> TRUE, token |-> Empty,
          message |-> IF req.aborted THEN "The operation was aborted."
                      ELSE "Failed to fetch"]
    ELSE IF ~resp.ok
    THEN [threw |-> TRUE, token |-> Empty,
          message |-> IF resp.text # "" THEN resp.text
                      ELSE "Sign in failed with status " \o resp.status]
    ELSE IF TokenMissing(resp)
    THEN [threw |-> TRUE, token |-> Empty,
          message |-> "Token missing from response"]
    ELSE [threw |-> FALSE, token |-> resp.access_token, message |-> ""]

\* Variant: the catch block does not consult the signal.
SignalAbortedIgnored(req) == FALSE

\* if (controller.signal.aborted) return;
SignalAborted(req) == req.aborted

\* Variant: the failure path leaves mindflow-token-api-base in storage.
CatchBlockKeepsOwner(req, message, store) ==
    IF SignalAborted(req)
    THEN [updates |-> << >>, store |-> store]
    ELSE [updates |-> <<Set("autoLoginStatus", "error"),
                        Set("autoLoginError", message),
                        Set("authToken", Empty)>>,
          store   |-> [store EXCEPT !.token = Empty]]

\* The catch block: queued updates and storage afterwards.
CatchBlock(req, message, store) ==
    IF SignalAborted(req)
    THEN [updates |-> << >>, store |-> store]
    ELSE [updates |-> <<Set("autoLoginStatus", "error"),
                        Set("autoLoginError", message),
                        Set("authToken", Empty)>>,
          store   |-> RemoveToken(store)]

\* Variant: the success path does not write mindflow-token-api-base.
StoreTokenOwnerless(req, token, store) ==
    [updates |-> <<Set("authToken", token), Set("autoLoginStatus", "success")>>,
     store   |-> [store EXCEPT !.token = token]]

\* Lines 91-95: the token is stored with the apiBaseUrl of the effect run.
StoreToken(req, token, store) ==
    [updates |-> <<Set("authToken", token), Set("autoLoginStatus", "success")>>,
     store   |-> [store EXCEPT !.token = token, !.owner = req.base]]

\* Variant: a failure removes mindflow-token only.
performLoginKeepsOwner(req, resp, store) ==
    LET try == TryBlock(req, resp)
    IN  IF try.threw
        THEN LET caught == CatchBlock(req, try.message, store)
             IN  [caught EXCEPT !.store =
                     IF SignalAborted(req) THEN store
                     ELSE [store EXCEPT !.token = Empty]]
        ELSE StoreToken(req, try.token, store)

performLogin(req, resp, store) ==
    LET try == TryBlock(req, resp)
    IN  IF try.threw THEN CatchBlock(req, try.message, store)
        ELSE StoreToken(req, try.token, store)

Remove(reqs, i) == SubSeq(reqs, 1, i - 1) \o SubSeq(reqs, i + 1, Len(reqs))

\* The response of sign-in i arrives (or, for an aborted fetch, its
\* rejection is delivered) and the rest of performLogin runs.  The request
\* leaves the network; aborting its controller later has no effect.  A
\* response takes a network round trip, so it is delivered after the effects
\* of the commit that was pending when it was sent have run.
SettleSignIn(i, resp) ==
    /\ mounted
    /\ ~Dirty
    /\ i \in 1..Len(signins)
    /\ LET done == performLogin(signins[i], resp, ls)
       IN  /\ Commit(done.updates)
           /\ ls' = done.store
    /\ signins' = Remove(signins, i)
    /\ controller' = IF controller = i THEN 0
                     ELSE IF controller > i THEN controller - 1
                     ELSE controller
    /\ sent' = {}
    /\ lastOp' = Op("settle", signins[i], resp)
    /\ UNCHANGED <<envBase, activeTab, mounted, effDeps, loadingSuggestions,
                   response, startup, nOps>>
    /\ UNCHANGED panelVars

----------------------------------------------------------------------------
\* Home: operator actions.  React runs the effects of a commit before the
\* next event is dispatched, so a handler never sees pending effects.

\* Variant: a pasted token is stored without its owner.
handleTokenChangeOwnerless(value, base, store) ==
    [updates |-> <<Set("authToken", value)>>,
     store   |-> IF Truthy(value)
                 THEN [store EXCEPT !.token = value]
                 ELSE RemoveToken(store)]

\* handleTokenChange(value)
handleTokenChange(value, base, store) ==
    [updates |-> <<Set("authToken", value)>>,
     store   |-> IF Truthy(value)
                 THEN [store EXCEPT !.token = value, !.owner = base]
                 ELSE RemoveToken(store)]

\* onChange of the bearer token input: the value differs from the one shown.
TokenChange(value) ==
    /\ mounted
    /\ ~Dirty
    /\ nOps < MaxOps
    /\ value # authToken
    /\ LET done == handleTokenChange(value, apiBaseUrl, ls)
       IN  /\ Commit(done.updates)
           /\ ls' = done.store
    /\ sent' = {}
    /\ lastOp' = Op("token", NoSignIn, NoResponse)
    /\ nOps' = nOps + 1
    /\ UNCHANGED <<envBase, activeTab, mounted, effDeps, controller, signins,
                   loadingSuggestions, response, startup>>
    /\ UNCHANGED panelVars

\* Variant: the click leaves the stored token and its owner in place.
EnvironmentClickKeepsStorage(env, store) ==
    LET base == getDefaultApiBase(env)
    IN  [updates |-> <<Set("authToken", Empty), Set("apiBaseUrl", base)>>,
         store   |-> [store EXCEPT !.base = base]]

\* onClick of "Use Staging API", "Use Dev API", "Use Local API"
EnvironmentClick(env, store) ==
    LET base == getDefaultApiBase(env)
    IN  [updates |-> <<Set("authToken", Empty), Set("apiBaseUrl", base)>>,
         store   |-> [RemoveToken(store) EXCEPT !.base = base]]

\* History: the sign-ins still in flight for another base URL are superseded.
Supersede(reqs, base) ==
    [i \in 1..Len(reqs) |->
        IF reqs[i].base # base
        THEN [reqs[i] EXCEPT !.superseded = TRUE]
        ELSE reqs[i]]

SelectEnvironment(env) ==
    /\ mounted
    /\ ~Dirty
    /\ nOps < MaxOps
    /\ LET done == EnvironmentClick(env, ls)
       IN  /\ Commit(done.updates)
           /\ ls' = done.store
    /\ signins' = Supersede(signins, getDefaultApiBase(env))
    /\ sent' = {}
    /\ lastOp' = Op("env", NoSignIn, NoResponse)
    /\ nOps' = nOps + 1
    /\ UNCHANGED <<envBase, activeTab, mounted, effDeps, controller,
                   loadingSuggestions, response, startup>>
    /\ UNCHANGED panelVars

\* onClick of a tab: the panel on screen is unmounted and the new one mounts,
\* running its effects for the first time.
SetActiveTab(tab) ==
    /\ mounted
    /\ ~Dirty
    /\ tab # activeTab
    /\ activeTab' = tab
    /\ sent' = PanelEffects(tab, apiBaseUrl, authToken, ls)
    /\ loadingSuggestions' = FALSE
    /\ response' = FALSE
    /\ IF tab = "tasks"
       THEN TasksPanelEffects(TasksPanelInit, apiBaseUrl, authToken,
                              TRUE, TRUE, "mount")
       ELSE /\ tasksPanel' = TasksPanelInit
            /\ tzFetches' = << >>
            /\ taskFetches' = << >>
            /\ panelOp' = Op("none", NoFetch, NoPanelResponse)
    /\ UNCHANGED <<envBase, ls, authToken, autoLoginStatus, autoLoginError,
                   apiBaseUrl, mounted, effDeps, controller, signins, startup,
                   lastOp, nOps>>

----------------------------------------------------------------------------
\* TasksPanel: operator actions and continuations

\* onChange of the date input, and the effects of its commit.
ChangeDate(date) ==
    /\ mounted
    /\ ~Dirty
    /\ activeTab = "tasks"
    /\ nOps < MaxOps
    /\ date # tasksPanel.selectedDate
    /\ TasksPanelEffects([tasksPanel EXCEPT !.selectedDate = date],
                         apiBaseUrl, authToken, FALSE, TRUE, "date")
    /\ sent' = IF hasAuth(authToken)
               THEN {Request("tasks", apiBaseUrl, authToken, ls)}
               ELSE {}
    /\ nOps' = nOps + 1
    /\ UNCHANGED homeVars

\* The wellness fetch i of TasksPanel settles.
SettleTimezone(i, resp) ==
    /\ mounted
    /\ ~Dirty
    /\ i \in 1..Len(tzFetches)
    /\ tasksPanel' = fetchWellnessDone(tasksPanel, resp)
    /\ tzFetches' = Remove(tzFetches, i)
    /\ panelOp' = Op("timezone", tzFetches[i], resp)
    /\ sent' = {}
    /\ UNCHANGED <<taskFetches, nOps>>
    /\ UNCHANGED homeVars

\* The tasks fetch i settles.
SettleTasks(i, resp) ==
    /\ mounted
    /\ ~Dirty
    /\ i \in 1..Len(taskFetches)
    /\ tasksPanel' = fetchTasksDone(tasksPanel, taskFetches[i], resp)
    /\ taskFetches' = Remove(taskFetches, i)
    /\ panelOp' = Op("tasks", taskFetches[i], resp)
    /\ sent' = {}
    /\ UNCHANGED <<tzFetches, nOps>>
    /\ UNCHANGED homeVars

----------------------------------------------------------------------------
\* Panels: requests the operator starts

\* Refresh of WellnessPanel (fetchWellness) and of TasksPanel (fetchTasks)
Refresh ==
    /\ mounted
    /\ ~Dirty
    /\ activeTab \in {"wellness", "tasks"}
    /\ IF activeTab = "tasks"
       THEN /\ ~RefreshDisabled(tasksPanel, authToken)
            /\ nOps < MaxOps
            /\ nOps' = nOps + 1
            /\ LET call == fetchTasks(tasksPanel, apiBaseUrl, authToken)
               IN  /\ tasksPanel' = call.panel
                   /\ taskFetches' = IF call.sends
                                     THEN Append(Older(taskFetches), call.req)
                                     ELSE taskFetches
                   /\ sent' = IF call.sends
                              THEN {Request("tasks", apiBaseUrl, authToken, ls)}
                              ELSE {}
                   /\ panelOp' = Op("refresh", call.req, NoPanelResponse)
            /\ UNCHANGED tzFetches
       ELSE /\ hasAuth(authToken)
            /\ sent' = {Request("wellness", apiBaseUrl, authToken, ls)}
            /\ UNCHANGED nOps
            /\ UNCHANGED panelVars
    /\ UNCHANGED homeVars

\* BrainDumpPanel.requestSuggestions with a non-empty brain dump
requestSuggestions ==
    /\ mounted
    /\ ~Dirty
    /\ activeTab = "brain"
    /\ ~loadingSuggestions
    /\ hasAuth(authToken)
    /\ loadingSuggestions' = TRUE
    /\ sent' = {Request("suggestions", apiBaseUrl, authToken, ls)}
    /\ UNCHANGED <<envBase, ls, authToken, autoLoginStatus, autoLoginError,
                   apiBaseUrl, activeTab, mounted, effDeps, controller,
                   signins, response, startup, lastOp, nOps>>
    /\ UNCHANGED panelVars

\* The suggestions request settles: a body with a brainDumpEntryId, or a
\* failure, which resets the response.
SuggestionsSettle(ok) ==
    /\ mounted
    /\ ~Dirty
    /\ loadingSuggestions
    /\ loadingSuggestions' = FALSE
    /\ response' = ok
    /\ sent' = {}
    /\ UNCHANGED <<envBase, ls, authToken, autoLoginStatus, autoLoginError,
                   apiBaseUrl, activeTab, mounted, effDeps, controller,
                   signins, startup, lastOp, nOps>>
    /\ UNCHANGED panelVars

\* BrainDumpPanel.addToCalendar for a suggestion of the response on screen
addToCalendar ==
    /\ mounted
    /\ ~Dirty
    /\ activeTab = "brain"
    /\ hasAuth(authToken)
    /\ response
    /\ sent' = {Request("add-to-calendar", apiBaseUrl, authToken, ls)}
    /\ UNCHANGED <<envBase, ls, authToken, autoLoginStatus, autoLoginError,
                   apiBaseUrl, activeTab, mounted, effDeps, controller,
                   signins, loadingSuggestions, response, startup, lastOp,
                   nOps>>
    /\ UNCHANGED panelVars

----------------------------------------------------------------------------

\* The session controller: Home with the panel of the first tab on screen.
Next ==
    \/ Mount
    \/ RunEffects
    \/ \E i \in 1..Len(signins), resp \in Responses : SettleSignIn(i, resp)
    \/ \E value \in TypedTokens : TokenChange(value)
    \/ \E env \in Environments : SelectEnvironment(env)

Spec == Init /\ [][Next]_vars

\* The session controller and the operator's use of WellnessPanel and
\* BrainDumpPanel.
NextPanels ==
    \/ Mount
    \/ RunEffects
    \/ \E i \in 1..Len(signins), resp \in Responses : SettleSignIn(i, resp)
    \/ \E value \in TypedTokens : TokenChange(value)
    \/ \E env \in Environments : SelectEnvironment(env)
    \/ \E tab \in Tabs \ {"tasks"} : SetActiveTab(tab)
    \/ Refresh
    \/ requestSuggestions
    \/ \E ok \in BOOLEAN : SuggestionsSettle(ok)
    \/ addToCalendar

\* The session controller when React runs the effects of every commit and
\* every fetch settles: with a response, or with the rejection of an abort.
SpecFair ==
    /\ Spec
    /\ WF_vars(Mount)
    /\ WF_vars(RunEffects)
    /\ WF_vars(\E i \in 1..Len(signins), resp \in Responses : SettleSignIn(i, resp))

SpecPanels == Init /\ [][NextPanels]_vars

\* The console as a whole, the three panels with TasksPanel in full: a
\* first visit (no configured base URL, empty storage); the sign-in endpoint
\* issues a token or answers 401; the operator also types a blank token and
\* switches to the dev API.
ConsoleResponses ==
    {resp \in Responses :
        \/ resp.status = "401"
        \/ resp.ok /\ ~TokenMissing(resp)}

ConsoleTokens == TypedTokens \cup {<<" ">>}

ConsoleEnvironments == {"dev"}

InitConsole ==
    /\ Init
    /\ envBase = Empty
    /\ ls = [base |-> Empty, token |-> Empty, owner |-> Empty]

NextConsole ==
    \/ Mount
    \/ RunEffects
    \/ \E i \in 1..Len(signins), resp \in ConsoleResponses : SettleSignIn(i, resp)
    \/ \E value \in ConsoleTokens : TokenChange(value)
    \/ \E env \in ConsoleEnvironments : SelectEnvironment(env)
    \/ \E tab \in Tabs : SetActiveTab(tab)
    \/ Refresh
    \/ requestSuggestions
    \/ \E ok \in BOOLEAN : SuggestionsSettle(ok)
    \/ addToCalendar
    \/ \E date \in Dates : ChangeDate(date)
    \/ \E i \in 1..Len(tzFetches), resp \in TzResponses : SettleTimezone(i, resp)
    \/ \E i \in 1..Len(taskFetches), resp \in TaskResponses : SettleTasks(i, resp)

SpecConsole == InitConsole /\ [][NextConsole]_vars

----------------------------------------------------------------------------
\* Properties

\* The step is the continuation of a sign-in; lastOp' names the request and
\* the response it received.
Settles == Len(signins') < Len(signins)

\* A sign-in is started by the step.
StartsSignIn == Len(signins') > Len(signins)

\* The response is a failure: a network error, a non-2xx status, or a 2xx
\* body without a non-empty access_token.
SignInFailed(resp) ==
    resp.net \/ ~resp.ok \/ ~resp.has_token \/ resp.access_token = Empty

NoTokenIn2xx(resp) ==
    ~resp.net /\ resp.ok /\ (~resp.has_token \/ resp.access_token = Empty)

EmptyStore == [base |-> Empty, token |-> Empty, owner |-> Empty]

\* C1: whenever the status is ready, the in-memory token is non-empty and
\* the persisted token owner equals the selected base URL, in every rendered
\* state.
C1_ReadyImpliesOwnedToken ==
    autoLoginStatus = "success" =>
        (Truthy(authToken) /\ ls.owner = apiBaseUrl)

\* C2: every bearer-authenticated request a panel sends carries a token
\* whose owner is the base URL the request is sent to.
C2_RequestsCarryOwnToken ==
    \A q \in sent : q.owner = q.base

\* C3: when the sign-in of a base URL settles after another environment was
\* selected, whatever its response, the token, the persisted token and
\* owner, the status and the error message stay as they were.
C3_StaleOutcomeLeavesNoTrace ==
    [][(Settles /\ lastOp'.req.superseded) =>
           UNCHANGED <<authToken, ls, autoLoginStatus, autoLoginError,
                       apiBaseUrl>>]_vars

\* A successful response for the superseded environment arrived after the
\* session of the newly selected environment was established.
C3_Witness ==
    /\ lastOp.kind = "settle"
    /\ lastOp.req.superseded
    /\ ~SignInFailed(lastOp.resp)
    /\ lastOp.req.base # apiBaseUrl
    /\ autoLoginStatus = "success"
    /\ ls.owner = apiBaseUrl

\* C4: started with a persisted token whose owner equals the persisted
\* base URL, the status is ready once the effects of the first commit have
\* run, and stays ready while the operator does nothing.
C4_StartupMatchIsReady ==
    (/\ mounted
     /\ nOps = 0
     /\ Truthy(startup.token)
     /\ Truthy(startup.base)
     /\ startup.owner = startup.base)
        => autoLoginStatus = "success"

\* C5: after the operator entered a non-empty token and the effects of that
\* commit have run, the status is ready, the in-memory and persisted token
\* are the entered value and the persisted owner is the selected base URL.
C5_PastedTokenIsReady ==
    (lastOp.kind = "token" /\ Truthy(authToken) /\ ~Dirty) =>
        /\ autoLoginStatus = "success"
        /\ ls.token = authToken
        /\ ls.owner = apiBaseUrl

\* C6: a step that changes the selected base URL clears the in-memory
\* token, the persisted token and its owner, persists the new base URL and
\* starts no sign-in; the step after it finds them cleared, enters
\* authenticating and sends one sign-in, not aborted, to the new base URL.
C6_SwitchClearsThenSignsIn ==
    [][/\ (apiBaseUrl' # apiBaseUrl) =>
              /\ authToken' = Empty
              /\ ls'.token = Empty
              /\ ls'.owner = Empty
              /\ ls'.base = apiBaseUrl'
              /\ ~StartsSignIn
       /\ (mounted /\ effDeps.apiBaseUrl # apiBaseUrl) =>
              /\ authToken = Empty /\ ls.token = Empty /\ ls.owner = Empty
              /\ apiBaseUrl' = apiBaseUrl
              /\ autoLoginStatus' = "loading"
              /\ StartsSignIn
              /\ signins'[Len(signins')] = NewSignIn(apiBaseUrl)
              /\ controller' = Len(signins')]_vars

\* The session persisted for one base URL was seeded at startup, the
\* operator selected another environment, and its sign-in is in flight.
C6_Witness ==
    /\ lastOp.kind = "env"
    /\ ~Dirty
    /\ nOps = 1
    /\ Truthy(startup.token)
    /\ startup.owner = startup.base
    /\ startup.base # apiBaseUrl
    /\ autoLoginStatus = "loading"
    /\ controller # 0
    /\ signins[controller] = NewSignIn(apiBaseUrl)

\* C7: when a sign-in that was not aborted settles with a failure, the
\* in-memory token, the persisted token and the persisted owner are cleared,
\* an error message is recorded and the status is failed.
C7_FailureClearsSession ==
    [][(Settles /\ ~lastOp'.req.aborted /\ SignInFailed(lastOp'.resp)) =>
           /\ authToken' = Empty
           /\ ls'.token = Empty
           /\ ls'.owner = Empty
           /\ autoLoginError' \notin {Null, ""}
           /\ autoLoginStatus' = "error"]_vars

\* A sign-in that was not aborted received a non-2xx response.
C7_Witness ==
    /\ lastOp.kind = "settle"
    /\ ~lastOp.req.aborted
    /\ ~lastOp.resp.net
    /\ ~lastOp.resp.ok
    /\ autoLoginStatus = "error"

\* C8: a 2xx response without a non-empty access_token moves a sign-in that
\* was not aborted to failed with no token in memory or in storage, and
\* changes nothing when the sign-in was aborted.
C8_MissingTokenFails ==
    [][(Settles /\ NoTokenIn2xx(lastOp'.resp)) =>
           IF lastOp'.req.aborted
           THEN UNCHANGED <<authToken, ls, autoLoginStatus, autoLoginError>>
           ELSE /\ autoLoginStatus' = "error"
                /\ authToken' = Empty
                /\ ls'.token = Empty]_vars

\* A sign-in that was not aborted received a 2xx body whose access_token is
\* the empty string.
C8_Witness ==
    /\ lastOp.kind = "settle"
    /\ ~lastOp.req.aborted
    /\ lastOp.resp.ok
    /\ lastOp.resp.has_token
    /\ lastOp.resp.access_token = Empty
    /\ autoLoginStatus = "error"

\* C9: while the last thing that happened is the continuation of a sign-in
\* and the status is failed, no sign-in is started.
C9_NoAutomaticRetry ==
    [][(lastOp.kind = "settle" /\ autoLoginStatus = "error") =>
           ~StartsSignIn]_vars

\* C10: started with empty storage and no configured base URL, when the
\* status is ready and the operator has done nothing, storage holds the
\* token "abc" and the local base URL both as its owner and as the selected
\* base URL.
C10_FreshStartPersistsRecord ==
    (/\ startup = EmptyStore
     /\ envBase = Empty
     /\ nOps = 0
     /\ autoLoginStatus = "success")
        => ls = [base  |-> <<"https://localhost:7046">>,
                 token |-> <<"abc">>,
                 owner |-> <<"https://localhost:7046">>]

\* C11: right after startup, when the persisted owner differs from the base
\* URL startup selected (persisted base, else the configured one, else the
\* local default), the in-memory token is absent.
C11_SeedOnlyForSelectedBase ==
    (/\ mounted
     /\ nOps = 0
     /\ lastOp.kind = "start"
     /\ apiBaseUrl = InitialApiBaseUrl(startup, envBase)
     /\ startup.owner # apiBaseUrl)
        => authToken = Empty

\* No sign-in that was not aborted has received a failure.
SignInSucceeded ==
    (lastOp.kind = "settle" /\ ~lastOp.req.aborted) => ~SignInFailed(lastOp.resp)

\* C12: clearing a non-empty token removes the persisted token and owner,
\* and the effects of that commit start a sign-in for the selected base URL;
\* if no sign-in ever fails, a state without a token is always followed by
\* a state with one.
C12_ClearedTokenIsReplaced ==
    /\ [][/\ (nOps' = nOps + 1 /\ lastOp'.kind = "token" /\ authToken' = Empty) =>
                 /\ Truthy(authToken)
                 /\ ls'.token = Empty
                 /\ ls'.owner = Empty
          /\ (lastOp.kind = "token" /\ authToken = Empty /\ Dirty) =>
                 /\ StartsSignIn
                 /\ signins'[Len(signins')] = NewSignIn(apiBaseUrl)
                 /\ controller' = Len(signins')]_vars
    /\ ([]SignInSucceeded) => ((authToken = Empty) ~> Truthy(authToken))

\* The operator cleared the token; storage holds neither token nor owner and
\* the sign-in started by the effects of that commit is in flight.
C12_Witness ==
    /\ lastOp.kind = "token"
    /\ authToken = Empty
    /\ ~Dirty
    /\ ls.token = Empty
    /\ ls.owner = Empty
    /\ autoLoginStatus = "loading"
    /\ controller # 0
    /\ signins[controller] = NewSignIn(apiBaseUrl)

\* C13: a step that starts a sign-in addresses it to the selected base URL
\* and is taken only when no token with a matching owner is available: not
\* in memory and, at startup, not in persisted storage.
C13_SignInOnlyWhenNeeded ==
    [][StartsSignIn =>
           /\ signins'[Len(signins')].base = apiBaseUrl
           /\ ~(/\ ls.owner = apiBaseUrl
                /\ \/ Truthy(authToken)
                   \/ ~mounted /\ Truthy(ls.token))]_vars

\* C14: entering a non-empty token starts no sign-in, neither in the handler
\* nor in the effects of its commit, which abort every sign-in in flight;
\* no continuation of a sign-in replaces the entered token or its record.
C14_PastedTokenStartsNoSignIn ==
    [][/\ (nOps' = nOps + 1 /\ lastOp'.kind = "token" /\ Truthy(authToken'))
              => ~StartsSignIn
       /\ (lastOp.kind = "token" /\ Truthy(authToken) /\ Dirty) =>
              /\ ~StartsSignIn
              /\ authToken' = authToken
              /\ \A i \in 1..Len(signins') : signins'[i].aborted
       /\ (authToken = <<"pasted">>) => ~StartsSignIn
       /\ (authToken = <<"pasted">> /\ Settles) =>
              /\ lastOp'.req.aborted
              /\ UNCHANGED <<authToken, ls>>]_vars

\* The operator entered a token while a sign-in was in flight; the sign-in
\* then received a token of its own, and the entered one is still in place.
C14_Witness ==
    /\ lastOp.kind = "settle"
    /\ lastOp.req.aborted
    /\ ~SignInFailed(lastOp.resp)
    /\ authToken = <<"pasted">>
    /\ ls.token = <<"pasted">>
    /\ ls.owner = apiBaseUrl

\* C15: when a sign-in that was not aborted receives a token, the step
\* leaves that token in memory and in storage, the base URL of the request,
\* which is the selected one, as its owner, the status ready and no error
\* message; no panel request is sent before storage holds the record.
C15_SuccessStoresThenShows ==
    [][(Settles /\ ~lastOp'.req.aborted /\ ~SignInFailed(lastOp'.resp)) =>
           /\ authToken' = lastOp'.resp.access_token
           /\ ls'.token = lastOp'.resp.access_token
           /\ ls'.owner = lastOp'.req.base
           /\ lastOp'.req.base = apiBaseUrl'
           /\ autoLoginStatus' = "success"
           /\ autoLoginError' = Null
           /\ sent' = {}]_vars

\* The sign-in started for an environment the operator selected succeeded.
C15_Witness ==
    /\ lastOp.kind = "settle"
    /\ ~lastOp.req.aborted
    /\ ~SignInFailed(lastOp.resp)
    /\ nOps >= 1
    /\ authToken = IssuedToken
    /\ ls.token = IssuedToken
    /\ ls.owner = apiBaseUrl
    /\ autoLoginStatus = "success"

\* The step is the continuation of a wellness fetch of TasksPanel, or of a
\* tasks fetch; panelOp' names the fetch and the response it received.
TimezoneSettles == panelOp'.kind = "timezone" /\ Len(tzFetches') < Len(tzFetches)

TasksSettles == panelOp'.kind = "tasks" /\ Len(taskFetches') < Len(taskFetches)

PanelFetchFailed(resp) == resp.net \/ ~resp.ok

\* C16: when the last thing that happened in the tasks panel is the failure
\* of its most recent wellness fetch, sent with the token now in memory,
\* the time of every task on screen is rendered in the default time zone.
C16_FailedTimezoneFetchUsesDefault ==
    (/\ panelOp.kind = "timezone"
     /\ panelOp.req.latest
     /\ panelOp.req.token = authToken
     /\ PanelFetchFailed(panelOp.resp))
        => \A k \in 1..Len(tasksPanel.tasks) :
               formatTime(tasksPanel.tasks[k].time, tasksPanel.timezoneId)[2]
                   = "default"

\* C17: the failure of a wellness fetch of the tasks panel leaves the
\* panel's error, tasks and loading flag and the tasks fetches in flight as
\* they were; every step that sends a wellness fetch sends a tasks fetch
\* too; and a tasks response is shown when it arrives, whatever happened to
\* the wellness fetch.
C17_TimezoneFailureIsSilent ==
    [][/\ (TimezoneSettles /\ PanelFetchFailed(panelOp'.resp)) =>
              UNCHANGED <<tasksPanel, taskFetches>>
       /\ (Len(tzFetches') > Len(tzFetches)) =>
              /\ Len(taskFetches') > Len(taskFetches)
              /\ taskFetches'[Len(taskFetches')].token
                     = tzFetches'[Len(tzFetches')].token
       /\ (TasksSettles /\ ~PanelFetchFailed(panelOp'.resp)) =>
              /\ tasksPanel'.tasks = IF panelOp'.resp.items
                                     THEN TasksOf(panelOp'.req) ELSE << >>
              /\ tasksPanel'.error = tasksPanel.error
              /\ tasksPanel'.timezoneId = tasksPanel.timezoneId
              /\ ~tasksPanel'.loading]_vars

\* The tasks arrived first and are on screen without an error; the wellness
\* fetch sent with them then failed.
C17_Witness ==
    /\ panelOp.kind = "timezone"
    /\ PanelFetchFailed(panelOp.resp)
    /\ panelOp.req.token = authToken
    /\ tasksPanel.tasks = TasksOf(PanelFetch(apiBaseUrl, authToken, tasksPanel.selectedDate))
    /\ tasksPanel.error = Null
    /\ ~tasksPanel.loading
    /\ taskFetches = << >>

\* C18: a step that starts a sign-in or a tasks fetch clears the error of
\* the controller or of the panel; the continuation of an aborted sign-in
\* leaves the controller's error and token alone; and the failure of a
\* tasks fetch that is no longer the latest leaves the panel's error and
\* tasks alone.
C18_NewestAttemptWins ==
    [][/\ StartsSignIn => autoLoginError' = Null
       /\ (Settles /\ lastOp'.req.aborted) =>
              UNCHANGED <<autoLoginError, autoLoginStatus, authToken>>
       /\ (Len(taskFetches') > Len(taskFetches)) => tasksPanel'.error = Null
       /\ (TasksSettles /\ ~panelOp'.req.latest /\ PanelFetchFailed(panelOp'.resp)) =>
              /\ tasksPanel'.error = tasksPanel.error
              /\ tasksPanel'.tasks = tasksPanel.tasks]_vars

\* C19 as stated: every request a panel sends carries the token in memory,
\* which is not blank; while the token is blank no step sends a request,
\* starts a fetch of the tasks panel or a suggestions request, and only the
\* continuation of a tasks fetch sent earlier sets the panel's error; the
\* panel on screen, whichever it is, then renders a hint.
C19_EveryPanelShowsHint ==
    [][/\ \A q \in sent' : q.token = authToken /\ hasAuth(q.token)
       /\ ~hasAuth(authToken) =>
              /\ sent' = {}
              /\ Len(tzFetches') <= Len(tzFetches)
              /\ Len(taskFetches') <= Len(taskFetches)
              /\ loadingSuggestions' => loadingSuggestions
              /\ TasksSettles \/ tasksPanel'.error \in {tasksPanel.error, Null}
       /\ ~hasAuth(authToken') => ShowsHint(activeTab', authToken')]_vars

\* C19, amended: as above, with the hint rendered by the wellness and tasks
\* panels; the brain dump panel renders none.
C19_NoRequestWithoutToken ==
    [][/\ \A q \in sent' : q.token = authToken /\ hasAuth(q.token)
       /\ ~hasAuth(authToken) =>
              /\ sent' = {}
              /\ Len(tzFetches') <= Len(tzFetches)
              /\ Len(taskFetches') <= Len(taskFetches)
              /\ loadingSuggestions' => loadingSuggestions
              /\ TasksSettles \/ tasksPanel'.error \in {tasksPanel.error, Null}
       /\ ~hasAuth(authToken') =>
              (ShowsHint(activeTab', authToken') <=> activeTab' # "brain")]_vars

\* The operator typed a blank token and then changed the date of the tasks
\* panel: nothing was sent, no fetch is loading and the hint is on screen.
C19_Witness ==
    /\ authToken = <<" ">>
    /\ activeTab = "tasks"
    /\ panelOp.kind = "date"
    /\ panelOp.req = NoFetch
    /\ tasksPanel.selectedDate # Today
    /\ sent = {}
    /\ ~tasksPanel.loading
    /\ tasksPanel.error = Null
    /\ ShowsHint(activeTab, authToken)

\* C20: whenever an error message is recorded, the status is failed.
C20_ErrorMessageImpliesFailed ==
    autoLoginError # Null => autoLoginStatus = "error"

\* A sign-in failed and the operator then entered a token: the message is
\* still there.
C20_Witness ==
    /\ autoLoginError # Null
    /\ lastOp.kind = "token"
    /\ Truthy(authToken)
    /\ ~Dirty

\* C21: once the effects of the first commit have run, the status is never
\* idle.
C21_NeverIdleAfterStartup ==
    mounted => autoLoginStatus # "idle"

\* The operator switched environment or edited the token and the sign-in
\* that followed failed: the status is failed, not idle.
C21_Witness ==
    /\ mounted
    /\ nOps >= 1
    /\ lastOp.kind = "settle"
    /\ ~lastOp.req.aborted
    /\ autoLoginStatus = "error"

\* A URL that is an origin and nothing else: no "/" after it, no path, no
\* query, no fragment.
OriginOnly(url) == Len(url) = 1 /\ IsOrigin(url[1])

\* C22: getDefaultApiBase returns an origin and nothing else for each of
\* the three environments, the three results are pairwise distinct, and the
\* base URL an environment click selects and persists is such an origin.
C22_DefaultBasesAreOrigins ==
    /\ \A env \in Environments : OriginOnly(getDefaultApiBase(env))
    /\ \A e1, e2 \in Environments :
           e1 # e2 => getDefaultApiBase(e1) # getDefaultApiBase(e2)
    /\ lastOp.kind = "env" =>
           /\ OriginOnly(apiBaseUrl)
           /\ ls.base = apiBaseUrl
           /\ \E env \in Environments : apiBaseUrl = getDefaultApiBase(env)

\* The operator clicked "Use Staging API": the base URL is the origin of the
\* staging documentation URL, without its /swagger/index.html.
C22_Witness ==
    /\ lastOp.kind = "env"
    /\ apiBaseUrl = <<StagingSwaggerUrl[1]>>
    /\ apiBaseUrl # StagingSwaggerUrl
    /\ ls.base = apiBaseUrl

\* C23: in the tasks panel with a token, once no tasks fetch is in flight,
\* the tasks on screen are those of the selected date, the token in memory
\* and the selected base URL.
C23_SettledTasksAreCurrent ==
    (/\ activeTab = "tasks"
     /\ ~Dirty
     /\ hasAuth(authToken)
     /\ taskFetches = << >>
     /\ tasksPanel.tasks # << >>)
        => tasksPanel.tasks =
               TasksOf(PanelFetch(apiBaseUrl, authToken, tasksPanel.selectedDate))

\* A sign-in that was not aborted is in flight.
LiveSignIn == \E i \in 1..Len(signins) : ~signins[i].aborted

\* C24: whenever the status is authenticating, a sign-in that was not
\* aborted is in flight.
C24_AuthenticatingHasLiveSignIn ==
    autoLoginStatus = "loading" => LiveSignIn

\* C25: the persisted token is present if and only if the persisted owner is.
C25_TokenAndOwnerPaired ==
    Truthy(ls.token) <=> Truthy(ls.owner)

\* The page found a token and its owner in storage, and a sign-in that was
\* not aborted failed: both are gone.
C25_Witness ==
    /\ Truthy(startup.token)
    /\ Truthy(startup.owner)
    /\ lastOp.kind = "settle"
    /\ ~lastOp.req.aborted
    /\ SignInFailed(lastOp.resp)
    /\ ls.token = Empty
    /\ ls.owner = Empty

\* C26: a non-empty token in memory is the persisted token; a persisted
\* base URL is the selected one; a reload selects the same base URL and
\* seeds the token in memory or none.
C26_StorageMirrorsSession ==
    /\ Truthy(authToken) => ls.token = authToken
    /\ Truthy(ls.base) => ls.base = apiBaseUrl
    /\ InitialApiBaseUrl(ls, envBase) = apiBaseUrl
    /\ Truthy(authToken) =>
           Final(MountEffect(ls), "authToken", Empty) \in {Empty, authToken}

\* The operator selected another environment and pasted a token there:
\* storage holds that base URL and that token.
C26_Witness ==
    /\ nOps = 2
    /\ lastOp.kind = "token"
    /\ ~Dirty
    /\ Truthy(authToken)
    /\ ls.token = authToken
    /\ ls.base = apiBaseUrl
    /\ apiBaseUrl # InitialApiBaseUrl(startup, envBase)

\* C27: at most one sign-in that was not aborted is in flight.
C27_AtMostOneLiveSignIn ==
    Cardinality({i \in 1..Len(signins) : ~signins[i].aborted}) <= 1

\* Two environment clicks in a row: the sign-ins of the first commit and of
\* the first click are aborted and still in flight, that of the second
\* click is the only live one.
C27_Witness ==
    /\ nOps = 2
    /\ ~Dirty
    /\ Len(signins) = 3
    /\ controller = 3
    /\ signins[1].aborted
    /\ signins[2].aborted
    /\ ~signins[3].aborted
    /\ signins[3].base = apiBaseUrl

====
